---- MODULE Spec2Model ----
(***************************************************************************)
(* A model of aoc-helper (src/src/lib.rs): Direction, Point, Point3d,      *)
(* their parsers, grid indexing by Point<usize> and PrintBoard.            *)
(*                                                                         *)
(* The library is a set of pure functions and of operators that mutate a   *)
(* value the caller owns.  Every function is driven by a caller process:   *)
(* the initial state holds the arguments, an action performs the call and  *)
(* stores what it returned.  Texts are sequences of one-character strings. *)
(* isize / usize are modelled at a reduced width of Bits bits.             *)
(***************************************************************************)
EXTENDS Integers, Sequences, FiniteSets, TLC

VARIABLES
    overflow_checks,  \* build profile: TRUE = overflow panics, FALSE = wraps
    call,             \* the pending or last call: [fn |-> ..., arguments]
    ret,              \* what the call returned: [kind |-> ..., val |-> ...]
    dir,              \* walker: current Direction
    pos,              \* walker: current position, Point<isize>
    trail,            \* walker: history of [op, dir, pos], oldest first
    point,            \* arithmetic: the receiver Point of += and -=
    start,            \* arithmetic: the receiver's first value
    net,              \* arithmetic: sum of added minus subtracted offsets (exact)
    in_range,         \* arithmetic: no operation has left the scalar's range
    last,             \* arithmetic: the last operation [op, rhs, before, pure]
    grid,             \* indexing: the Vec<Vec<T>>
    shadow,           \* indexing: Point -> value last written through it
    nops              \* number of operations performed so far

vars == <<overflow_checks, call, ret, dir, pos, trail, point, start, net,
          in_range, last, grid, shadow, nops>>

----------------------------------------------------------------------------
(* Bounds *)

Bits == 3
MaxEvents == 7
MaxOps == 2
MaxOff == 1

----------------------------------------------------------------------------
(* isize and usize at width Bits *)

Pow2(n) == 2 ^ n
IntMin == 0 - Pow2(Bits - 1)
IntMax == Pow2(Bits - 1) - 1
UIntMax == Pow2(Bits) - 1
ISize == IntMin .. IntMax
USize == 0 .. UIntMax

WrapSigned(v) == ((v - IntMin) % Pow2(Bits)) + IntMin
WrapUnsigned(v) == v % Pow2(Bits)

\* A scalar result: a value, or the overflow panic of a checked build.
Val(v) == [panic |-> FALSE, v |-> v]
Overflowed == [panic |-> TRUE, v |-> 0]

\* isize + isize and isize - isize
ScalarAdd(a, b) ==
    IF a + b \in ISize THEN Val(a + b)
    ELSE IF overflow_checks THEN Overflowed ELSE Val(WrapSigned(a + b))

ScalarSub(a, b) ==
    IF a - b \in ISize THEN Val(a - b)
    ELSE IF overflow_checks THEN Overflowed ELSE Val(WrapSigned(a - b))

\* usize + usize
USizeAdd(a, b) ==
    IF a + b \in USize THEN Val(a + b)
    ELSE IF overflow_checks THEN Overflowed ELSE Val(WrapUnsigned(a + b))

\* isize::abs_diff: the exact |a - b| as usize; it always fits
AbsDiff(a, b) == IF a >= b THEN a - b ELSE b - a

----------------------------------------------------------------------------
(* Values *)

Pt(x, y) == [x |-> x, y |-> y]
Pt3(x, y, z) == [x |-> x, y |-> y, z |-> z]
Origin == Pt(0, 0)

None == [kind |-> "None"]
NoCall == [fn |-> "none"]

Direction == {"Left", "Right", "Up", "Down"}

----------------------------------------------------------------------------
(* Direction *)

rotate_clockwise(d) ==
    CASE d = "Left" -> "Up"
      [] d = "Right" -> "Down"
      [] d = "Up" -> "Right"
      [] d = "Down" -> "Left"

rotate_counterclockwise_swapped(d) ==
    CASE d = "Left" -> "Down"
      [] d = "Right" -> "Up"
      [] d = "Up" -> "Right"
      [] d = "Down" -> "Left"

rotate_counterclockwise(d) ==
    CASE d = "Left" -> "Down"
      [] d = "Right" -> "Up"
      [] d = "Up" -> "Left"
      [] d = "Down" -> "Right"

as_vector_y_up(d) ==
    CASE d = "Left" -> Pt(-1, 0)
      [] d = "Right" -> Pt(1, 0)
      [] d = "Up" -> Pt(0, 1)
      [] d = "Down" -> Pt(0, -1)

as_vector(d) ==
    CASE d = "Left" -> Pt(-1, 0)
      [] d = "Right" -> Pt(1, 0)
      [] d = "Up" -> Pt(0, -1)
      [] d = "Down" -> Pt(0, 1)

----------------------------------------------------------------------------
(* Point arithmetic.  A result is [panic, v] with v a Point. *)

\* Self { x: a, y: b } where evaluating a or b may panic
MkPoint(rx, ry) ==
    IF rx.panic \/ ry.panic THEN [panic |-> TRUE, v |-> Origin]
    ELSE [panic |-> FALSE, v |-> Pt(rx.v, ry.v)]

\* impl Add<(T, T)> for Point<T>; rhs is a pair <<rhs.0, rhs.1>>
Add_tuple(self, rhs) == MkPoint(ScalarAdd(self.x, rhs[1]), ScalarAdd(self.y, rhs[2]))

\* impl Add<Point<T>> for Point<T>
Add_point(self, rhs) == MkPoint(ScalarAdd(self.x, rhs.x), ScalarAdd(self.y, rhs.y))

\* impl Sub<(T, T)> for Point<T>
Sub_tuple(self, rhs) == MkPoint(ScalarSub(self.x, rhs[1]), ScalarSub(self.y, rhs[2]))

\* impl Sub<Point<T>> for Point<T>
Sub_point(self, rhs) == MkPoint(ScalarSub(self.x, rhs.x), ScalarSub(self.y, rhs.y))

----------------------------------------------------------------------------
(* The walker: a caller that turns and advances, as in                     *)
(*   dir = dir.rotate_clockwise();  pos = pos + dir.as_vector();           *)

WalkerIdle ==
    /\ dir = "Left" /\ pos = Origin /\ trail = <<>>

ArithIdle ==
    /\ point = Origin /\ start = Origin /\ net = Origin
    /\ in_range = TRUE /\ last = [kind |-> "None"]

GridIdle ==
    /\ grid = <<>> /\ shadow = <<>>

CallIdle ==
    /\ call = NoCall /\ ret = None

WalkStarts == {Origin, Pt(IntMax, IntMin)}

InitWalk ==
    /\ overflow_checks \in BOOLEAN
    /\ dir \in Direction
    /\ pos \in WalkStarts
    /\ trail = <<[op |-> "start", dir |-> dir, pos |-> pos]>>
    /\ nops = 0
    /\ CallIdle /\ ArithIdle /\ GridIdle

TurnClockwise ==
    /\ nops < MaxEvents
    /\ dir' = rotate_clockwise(dir)
    /\ trail' = Append(trail, [op |-> "cw", dir |-> dir', pos |-> pos])
    /\ nops' = nops + 1
    /\ UNCHANGED <<overflow_checks, call, ret, pos, point, start, net,
                   in_range, last, grid, shadow>>

TurnCounterclockwise ==
    /\ nops < MaxEvents
    /\ dir' = rotate_counterclockwise(dir)
    /\ trail' = Append(trail, [op |-> "ccw", dir |-> dir', pos |-> pos])
    /\ nops' = nops + 1
    /\ UNCHANGED <<overflow_checks, call, ret, pos, point, start, net,
                   in_range, last, grid, shadow>>

\* pos = pos + dir.as_vector(); a panic ends the walk
Advance ==
    /\ nops < MaxEvents
    /\ LET r == Add_point(pos, as_vector(dir)) IN
         /\ ~r.panic
         /\ pos' = r.v
         /\ trail' = Append(trail, [op |-> "step", dir |-> dir, pos |-> r.v])
    /\ nops' = nops + 1
    /\ UNCHANGED <<overflow_checks, call, ret, dir, point, start, net,
                   in_range, last, grid, shadow>>

NextWalk == TurnClockwise \/ TurnCounterclockwise \/ Advance

SpecWalk == InitWalk /\ [][NextWalk]_vars

\* the operations of trail entries i+1 .. i+Len(ops) are ops
OpsAt(i, ops) ==
    /\ i + Len(ops) <= Len(trail)
    /\ \A k \in 1..Len(ops) : trail[i + k].op = ops[k]

\* C1: four clockwise turns in a row restore the direction, and a clockwise
\* turn followed by a counterclockwise turn (or the reverse) restores it.
C1_RotationsInverse ==
    \A i \in 1..Len(trail) :
        /\ OpsAt(i, <<"cw", "cw", "cw", "cw">>) => trail[i + 4].dir = trail[i].dir
        /\ OpsAt(i, <<"cw", "ccw">>) => trail[i + 2].dir = trail[i].dir
        /\ OpsAt(i, <<"ccw", "cw">>) => trail[i + 2].dir = trail[i].dir

C1_Witness ==
    /\ OpsAt(1, <<"cw", "cw", "cw", "cw", "ccw", "cw">>)
    /\ trail[1].dir = "Up"

Manhattan(v) == AbsDiff(v.x, 0) + AbsDiff(v.y, 0)

\* C10: as_vector turns with the direction (clockwise (x,y) -> (-y,x),
\* counterclockwise (x,y) -> (y,-x)), is always a unit step, and walking a
\* square of four steps with clockwise turns between them, or a step forward
\* and a step along the twice-rotated direction, comes back to the start.
C10_VectorFollowsRotation ==
    /\ Manhattan(as_vector(dir)) = 1
    /\ \A i \in 1..Len(trail) :
        LET v == as_vector(trail[i].dir) IN
        /\ OpsAt(i, <<"cw">>) => as_vector(trail[i + 1].dir) = Pt(0 - v.y, v.x)
        /\ OpsAt(i, <<"ccw">>) => as_vector(trail[i + 1].dir) = Pt(v.y, 0 - v.x)
        /\ OpsAt(i, <<"step", "cw", "step", "cw", "step", "cw", "step">>)
              => trail[i + 7].pos = trail[i].pos
        /\ OpsAt(i, <<"step", "cw", "cw", "step">>) => trail[i + 4].pos = trail[i].pos

C10_Witness ==
    /\ OpsAt(1, <<"step", "cw", "step", "cw", "step", "cw", "step">>)
    /\ trail[1].dir = "Up"
    /\ trail[2].pos = Pt(0, -1)
    /\ trail[8].pos = Origin

----------------------------------------------------------------------------
(* Point::between *)

MaxCoord == 2
Coord == 0 .. MaxCoord
Points == {Pt(x, y) : x \in Coord, y \in Coord}

between_exclusive_right(self, upper_left, lower_right) ==
    /\ self.x >= upper_left.x
    /\ self.x < lower_right.x
    /\ self.y >= upper_left.y
    /\ self.y <= lower_right.y

between(self, upper_left, lower_right) ==
    /\ self.x >= upper_left.x
    /\ self.x <= lower_right.x
    /\ self.y >= upper_left.y
    /\ self.y <= lower_right.y

InitBetween ==
    /\ overflow_checks \in BOOLEAN
    /\ \E a \in Points, ul \in Points, lr \in Points :
         call = [fn |-> "between", self |-> a, upper_left |-> ul, lower_right |-> lr]
    /\ ret = None
    /\ nops = 0
    /\ WalkerIdle /\ ArithIdle /\ GridIdle

CallBetween ==
    /\ call.fn = "between" /\ ret.kind = "None"
    /\ ret' = [kind |-> "Bool", val |-> between(call.self, call.upper_left, call.lower_right)]
    /\ nops' = nops + 1
    /\ UNCHANGED <<overflow_checks, call, dir, pos, trail, point, start, net,
                   in_range, last, grid, shadow>>

NextBetween == CallBetween

SpecBetween == InitBetween /\ [][NextBetween]_vars

\* C2: a.between(ul, lr) is true exactly when a.x lies in the closed interval
\* [ul.x, lr.x] and a.y in [ul.y, lr.y]; so p.between(p, p) is true, and a box
\* inverted on either axis contains no point.
C2_BetweenIsInclusiveBox ==
    ret.kind = "Bool" =>
        LET a == call.self
            ul == call.upper_left
            lr == call.lower_right
        IN  /\ ret.val <=> (a.x \in ul.x .. lr.x /\ a.y \in ul.y .. lr.y)
            /\ (ul = a /\ lr = a) => ret.val
            /\ (ul.x > lr.x \/ ul.y > lr.y) => ~ret.val

C2_Witness ==
    /\ ret.kind = "Bool" /\ ret.val
    /\ call.self = Pt(2, 1) /\ call.upper_left = Pt(0, 1) /\ call.lower_right = Pt(2, 2)

----------------------------------------------------------------------------
(* Point::distance, for T = isize *)

ISizePoints == {Pt(x, y) : x \in ISize, y \in ISize}

\* self.x.into().abs_diff(other.x.into()) + self.y.into().abs_diff(other.y.into())
\* abs_diff returns usize; the + is usize addition.
distance(self, other) ==
    USizeAdd(AbsDiff(self.x, other.x), AbsDiff(self.y, other.y))

InitDistance ==
    /\ overflow_checks \in BOOLEAN
    /\ \E a \in ISizePoints, b \in ISizePoints :
         call = [fn |-> "distance", self |-> a, other |-> b]
    /\ ret = None
    /\ nops = 0
    /\ WalkerIdle /\ ArithIdle /\ GridIdle

CallDistance ==
    /\ call.fn = "distance" /\ ret.kind = "None"
    /\ LET r == distance(call.self, call.other) IN
         ret' = IF r.panic THEN [kind |-> "Panic", val |-> 0]
                ELSE [kind |-> "USize", val |-> r.v]
    /\ nops' = nops + 1
    /\ UNCHANGED <<overflow_checks, call, dir, pos, trail, point, start, net,
                   in_range, last, grid, shadow>>

NextDistance == CallDistance

SpecDistance == InitDistance /\ [][NextDistance]_vars

\* C3: for isize points over the full range, distance returns exactly
\* |a.x - b.x| + |a.y - b.y|, neither wrapped nor trapped; it is symmetric and
\* distance(a, a) = 0.
C3_DistanceIsExactManhattan ==
    ret.kind # "None" =>
        LET a == call.self
            b == call.other
        IN  /\ ret.kind = "USize"
            /\ ret.val = AbsDiff(a.x, b.x) + AbsDiff(a.y, b.y)
            /\ distance(b, a) = distance(a, b)
            /\ a = b => ret.val = 0

----------------------------------------------------------------------------
(* Point3d::borders, T = isize *)

ISizePoints3 == {Pt3(x, y, z) : x \in ISize, y \in ISize, z \in ISize}

\* (a, b, c).into() where evaluating a, b or c may panic
MkPoint3(rx, ry, rz) ==
    IF rx.panic \/ ry.panic \/ rz.panic THEN [panic |-> TRUE, v |-> Pt3(0, 0, 0)]
    ELSE [panic |-> FALSE, v |-> Pt3(rx.v, ry.v, rz.v)]

\* the array literal: its six elements, in order
borders(self) ==
    << MkPoint3(ScalarSub(self.x, 1), Val(self.y), Val(self.z)),
       MkPoint3(ScalarAdd(self.x, 1), Val(self.y), Val(self.z)),
       MkPoint3(Val(self.x), ScalarSub(self.y, 1), Val(self.z)),
       MkPoint3(Val(self.x), ScalarAdd(self.y, 1), Val(self.z)),
       MkPoint3(Val(self.x), Val(self.y), ScalarSub(self.z, 1)),
       MkPoint3(Val(self.x), Val(self.y), ScalarAdd(self.z, 1)) >>

InitBorders ==
    /\ overflow_checks \in BOOLEAN
    /\ \E p \in ISizePoints3 : call = [fn |-> "borders", self |-> p]
    /\ ret = None
    /\ nops = 0
    /\ WalkerIdle /\ ArithIdle /\ GridIdle

CallBorders ==
    /\ call.fn = "borders" /\ ret.kind = "None"
    /\ LET r == borders(call.self) IN
         ret' = IF \E i \in 1..6 : r[i].panic THEN [kind |-> "Panic", val |-> <<>>]
                ELSE [kind |-> "Array", val |-> [i \in 1..6 |-> r[i].v]]
    /\ nops' = nops + 1
    /\ UNCHANGED <<overflow_checks, call, dir, pos, trail, point, start, net,
                   in_range, last, grid, shadow>>

NextBorders == CallBorders

SpecBorders == InitBorders /\ [][NextBorders]_vars

Manhattan3(a, b) == AbsDiff(a.x, b.x) + AbsDiff(a.y, b.y) + AbsDiff(a.z, b.z)

\* C4: for every Point3d p, extreme coordinates included, borders() yields six
\* pairwise distinct points in the order x-1, x+1, y-1, y+1, z-1, z+1, each at
\* Manhattan distance 1 from p.
C4_BordersAreSixUnitNeighbours ==
    ret.kind # "None" =>
        LET p == call.self IN
        /\ ret.kind = "Array"
        /\ Len(ret.val) = 6
        /\ \A i, j \in 1..6 : i # j => ret.val[i] # ret.val[j]
        /\ \A i \in 1..6 : Manhattan3(ret.val[i], p) = 1
        /\ ret.val[1].x = p.x - 1 /\ ret.val[2].x = p.x + 1
        /\ ret.val[3].y = p.y - 1 /\ ret.val[4].y = p.y + 1
        /\ ret.val[5].z = p.z - 1 /\ ret.val[6].z = p.z + 1

----------------------------------------------------------------------------
(* += and -= on a Point<isize> the caller owns *)

\* self.x = self.x (op) a; self.y = self.y (op) b; with the receiver as the
\* panic, if any, leaves it
Assign2(self, rx, ry) ==
    IF rx.panic THEN [panic |-> TRUE, v |-> self]
    ELSE IF ry.panic THEN [panic |-> TRUE, v |-> [self EXCEPT !.x = rx.v]]
    ELSE [panic |-> FALSE, v |-> [self EXCEPT !.x = rx.v, !.y = ry.v]]

\* impl AddAssign<(T, T)> for Point<T>
AddAssign_tuple(self, rhs) ==
    Assign2(self, ScalarAdd(self.x, rhs[1]), ScalarAdd(self.y, rhs[2]))

AddAssign_point_crossed(self, rhs) ==
    Assign2(self, ScalarAdd(self.x, rhs.y), ScalarAdd(self.y, rhs.x))

\* impl AddAssign<Point<T>> for Point<T>
AddAssign_point(self, rhs) ==
    Assign2(self, ScalarAdd(self.x, rhs.x), ScalarAdd(self.y, rhs.y))

\* impl SubAssign<(T, T)> for Point<T>
SubAssign_tuple(self, rhs) ==
    Assign2(self, ScalarSub(self.x, rhs[1]), ScalarSub(self.y, rhs[2]))

\* impl SubAssign<Point<T>> for Point<T>
SubAssign_point(self, rhs) ==
    Assign2(self, ScalarSub(self.x, rhs.x), ScalarSub(self.y, rhs.y))

Offsets == (0 - MaxOff) .. MaxOff
ArithStarts == {Pt(x, y) : x \in {IntMin, 0, IntMax}, y \in {IntMin, 0, IntMax}}

InitArith ==
    /\ overflow_checks \in BOOLEAN
    /\ point \in ArithStarts
    /\ start = point
    /\ net = Origin
    /\ in_range = TRUE
    /\ last = None
    /\ nops = 0
    /\ CallIdle /\ WalkerIdle /\ GridIdle

\* one in-place operation: r is what it did to the receiver, sign the
\* direction of the exact offset (a, b)
ArithStep(op, r, a, b, sign) ==
    /\ point' = r.v
    /\ last' = [kind |-> "op", op |-> op, rhs |-> Pt(a, b), before |-> point,
                panic |-> r.panic]
    /\ net' = Pt(net.x + sign * a, net.y + sign * b)
    /\ in_range' = (in_range /\ point.x + sign * a \in ISize
                             /\ point.y + sign * b \in ISize)
    /\ ret' = IF r.panic THEN [kind |-> "Panic"] ELSE ret
    /\ nops' = nops + 1
    /\ UNCHANGED <<overflow_checks, call, dir, pos, trail, start, grid, shadow>>

\* the caller goes on until an operation panics
ArithLive == nops < MaxOps /\ ret.kind # "Panic"

DoAddAssignTuple ==
    /\ ArithLive
    /\ \E a \in Offsets, b \in Offsets :
         ArithStep("add_assign_tuple", AddAssign_tuple(point, <<a, b>>), a, b, 1)

DoAddAssignPoint ==
    /\ ArithLive
    /\ \E a \in Offsets, b \in Offsets :
         ArithStep("add_assign_point", AddAssign_point(point, Pt(a, b)), a, b, 1)

DoSubAssignTuple ==
    /\ ArithLive
    /\ \E a \in Offsets, b \in Offsets :
         ArithStep("sub_assign_tuple", SubAssign_tuple(point, <<a, b>>), a, b, -1)

DoSubAssignPoint ==
    /\ ArithLive
    /\ \E a \in Offsets, b \in Offsets :
         ArithStep("sub_assign_point", SubAssign_point(point, Pt(a, b)), a, b, -1)

NextArith == DoAddAssignTuple \/ DoAddAssignPoint \/ DoSubAssignTuple \/ DoSubAssignPoint

SpecArith == InitArith /\ [][NextArith]_vars

\* the pure operator that corresponds to an in-place one
PureOf(op, p, q) ==
    CASE op = "add_assign_tuple" -> Add_tuple(p, <<q.x, q.y>>)
      [] op = "add_assign_point" -> Add_point(p, q)
      [] op = "sub_assign_tuple" -> Sub_tuple(p, <<q.x, q.y>>)
      [] op = "sub_assign_point" -> Sub_point(p, q)

IsAdd(op) == op \in {"add_assign_tuple", "add_assign_point"}

\* C9: an in-place operator that returns leaves the receiver equal to what the
\* pure operator returns for the same operands, x combined with x and y with
\* y; while every operation stays within the scalar's range the receiver is
\* the start plus the added minus the subtracted offsets; and (p + q) - q = p.
C9_InPlaceMatchesPure ==
    /\ (last.kind = "op" /\ ~last.panic) =>
          LET pure == PureOf(last.op, last.before, last.rhs)
              sign == IF IsAdd(last.op) THEN 1 ELSE -1
          IN  /\ ~pure.panic
              /\ point = pure.v
              /\ point.x = WrapSigned(last.before.x + sign * last.rhs.x)
              /\ point.y = WrapSigned(last.before.y + sign * last.rhs.y)
              /\ IsAdd(last.op) =>
                    /\ Sub_point(point, last.rhs) = [panic |-> FALSE, v |-> last.before]
                    /\ Sub_tuple(point, <<last.rhs.x, last.rhs.y>>)
                          = [panic |-> FALSE, v |-> last.before]
    /\ in_range => (ret.kind # "Panic" /\ point = Pt(start.x + net.x, start.y + net.y))

C9_Witness ==
    /\ nops = 2 /\ in_range
    /\ last.kind = "op" /\ last.op = "sub_assign_point" /\ last.rhs = Pt(1, -1)
    /\ start = Origin /\ net = Pt(-2, 1) /\ point = Pt(-2, 1)

----------------------------------------------------------------------------
(* Index / IndexMut of a Vec<Vec<T>> by a Point<usize>.  Vec indices start *)
(* at 0; a TLA+ sequence starts at 1.                                      *)

MaxIdx == 3
MaxGridOps == 3
Idx == 0 .. MaxIdx
IdxPoints == {Pt(x, y) : x \in Idx, y \in Idx}
GridShapes == {<<0, 0>>, <<1, 2>>, <<2, 3>>, <<3, 2>>, <<2, 2>>}
WriteVals == {77, 88}

\* Vec<T>[i]: in bounds or the index-out-of-bounds panic
InBounds(v, i) == i + 1 \in 1 .. Len(v)

\* &self[index.y][index.x]
index_transposed(self, at) ==
    IF ~InBounds(self, at.x) THEN [panic |-> TRUE, v |-> 0]
    ELSE IF ~InBounds(self[at.x + 1], at.y) THEN [panic |-> TRUE, v |-> 0]
    ELSE [panic |-> FALSE, v |-> self[at.x + 1][at.y + 1]]

index(self, at) ==
    IF ~InBounds(self, at.y) THEN [panic |-> TRUE, v |-> 0]
    ELSE IF ~InBounds(self[at.y + 1], at.x) THEN [panic |-> TRUE, v |-> 0]
    ELSE [panic |-> FALSE, v |-> self[at.y + 1][at.x + 1]]

\* *(&mut self[index.y][index.x]) = value: the grid afterwards
index_mut_transposed(self, at, value) ==
    IF ~InBounds(self, at.x) THEN [panic |-> TRUE, v |-> self]
    ELSE IF ~InBounds(self[at.x + 1], at.y) THEN [panic |-> TRUE, v |-> self]
    ELSE [panic |-> FALSE, v |-> [self EXCEPT ![at.x + 1][at.y + 1] = value]]

index_mut(self, at, value) ==
    IF ~InBounds(self, at.y) THEN [panic |-> TRUE, v |-> self]
    ELSE IF ~InBounds(self[at.y + 1], at.x) THEN [panic |-> TRUE, v |-> self]
    ELSE [panic |-> FALSE, v |-> [self EXCEPT ![at.y + 1][at.x + 1] = value]]

\* the caller's grid of `rows` rows of `cols` cells, every cell different
NewGrid(rows, cols) == [r \in 1..rows |-> [c \in 1..cols |-> 10 * (r - 1) + (c - 1)]]

\* the points of a rows x cols grid
GridPoints(rows, cols) == {Pt(x, y) : x \in 0..(cols - 1), y \in 0..(rows - 1)}

InitGrid ==
    /\ overflow_checks \in BOOLEAN
    /\ \E shape \in GridShapes :
         /\ grid = NewGrid(shape[1], shape[2])
         /\ shadow = [q \in GridPoints(shape[1], shape[2]) |-> 10 * q.y + q.x]
    /\ ret = None
    /\ nops = 0
    /\ call = NoCall
    /\ WalkerIdle /\ ArithIdle

GridLive == nops < MaxGridOps /\ ret.kind # "Panic"

\* grid[p] = v
GridWrite ==
    /\ GridLive
    /\ \E p \in IdxPoints, v \in WriteVals :
         LET r == index_mut(grid, p, v) IN
         /\ grid' = r.v
         /\ shadow' = IF r.panic THEN shadow ELSE [shadow EXCEPT ![p] = v]
         /\ ret' = [kind |-> IF r.panic THEN "Panic" ELSE "Written", at |-> p,
                    val |-> v, before |-> grid]
    /\ nops' = nops + 1
    /\ UNCHANGED <<overflow_checks, call, dir, pos, trail, point, start, net,
                   in_range, last>>

\* let v = grid[q]
GridRead ==
    /\ GridLive
    /\ \E q \in IdxPoints :
         LET r == index(grid, q) IN
         ret' = [kind |-> IF r.panic THEN "Panic" ELSE "Read", at |-> q,
                 val |-> r.v, before |-> grid]
    /\ nops' = nops + 1
    /\ UNCHANGED <<overflow_checks, call, dir, pos, trail, point, start, net,
                   in_range, last, grid, shadow>>

NextGrid == GridWrite \/ GridRead

SpecGrid == InitGrid /\ [][NextGrid]_vars

\* q is a valid row (q.y) and column (q.x) of grid g
ValidAt(g, q) == q.y < Len(g) /\ q.x < Len(g[q.y + 1])

\* C7: grid[p] is the cell at row p.y, column p.x.  A read returns the value
\* last written through an equal point (or the initial cell); a write changes
\* that one cell and neither another cell nor the dimensions; an access
\* faults exactly when p.y is no row or p.x no column of that row, and then
\* the grid is unchanged.
C7_IndexIsRowYColumnX ==
    /\ \A y \in 0 .. (Len(grid) - 1) : \A x \in 0 .. (Len(grid[y + 1]) - 1) :
          /\ Pt(x, y) \in DOMAIN shadow
          /\ grid[y + 1][x + 1] = shadow[Pt(x, y)]
    /\ \A q \in DOMAIN shadow : ValidAt(grid, q)
    /\ ret.kind = "Read" => ret.val = shadow[ret.at]
    /\ ret.kind = "Written" =>
          /\ grid[ret.at.y + 1][ret.at.x + 1] = ret.val
          /\ Len(grid) = Len(ret.before)
          /\ \A r \in 1 .. Len(grid) :
                /\ Len(grid[r]) = Len(ret.before[r])
                /\ \A c \in 1 .. Len(grid[r]) :
                      (r # ret.at.y + 1 \/ c # ret.at.x + 1)
                          => grid[r][c] = ret.before[r][c]
    /\ ret.kind \in {"Read", "Written"} => ValidAt(ret.before, ret.at)
    /\ ret.kind = "Panic" => (~ValidAt(ret.before, ret.at) /\ grid = ret.before)

C7_Witness ==
    /\ ret.kind = "Read" /\ ret.at = Pt(2, 1) /\ ret.val = 88
    /\ Len(grid) = 2
    /\ grid[1] = <<0, 1, 2>> /\ grid[2] = <<10, 11, 88>>

C7_FaultWitness ==
    /\ ret.kind = "Panic" /\ ret.at = Pt(1, 2) /\ Len(grid) = 2 /\ nops = 2

----------------------------------------------------------------------------
(* PrintBoard for Vec<Vec<T>>.  A cell is given by its Display text. *)

MaxBoardRows == 3
MaxBoardCols == 2
CellTexts == {<<"a">>, <<"b", "c">>}
NL == "\n"

SeqsUpTo(S, n) == UNION {[1..k -> S] : k \in 0..n}
BoardRows == SeqsUpTo(CellTexts, MaxBoardCols)
Boards == SeqsUpTo(BoardRows, MaxBoardRows)

\* row.iter().map(|sq| sq.to_string()).collect(): the cells' texts appended
\* to one String, first cell first
RECURSIVE CollectRow(_, _)
CollectRow(row, k) ==
    IF k = 0 THEN <<>> ELSE CollectRow(row, k - 1) \o row[k]

\* format!("{}\n{}", left, right)
JoinLines(left, right) == left \o <<NL>> \o right

\* Iterator::reduce over the rendered rows 1..k: None for no row, else the
\* left fold from the first row
RECURSIVE ReduceRows(_, _)
ReduceRows(lines, k) ==
    IF k = 1 THEN lines[1] ELSE JoinLines(ReduceRows(lines, k - 1), lines[k])

print_board_line_per_row(self) ==
    LET lines == [i \in 1..Len(self) |-> CollectRow(self[i], Len(self[i])) \o <<NL>>]
        RECURSIVE Cat(_)
        Cat(k) == IF k = 0 THEN <<>> ELSE Cat(k - 1) \o lines[k]
    IN  Cat(Len(self))

print_board(self) ==
    LET lines == [i \in 1..Len(self) |-> CollectRow(self[i], Len(self[i]))]
    IN  IF Len(self) = 0 THEN <<>>            \* unwrap_or_default()
        ELSE ReduceRows(lines, Len(self))

InitPrint ==
    /\ overflow_checks \in BOOLEAN
    /\ \E b \in Boards : call = [fn |-> "print_board", self |-> b]
    /\ ret = None
    /\ nops = 0
    /\ WalkerIdle /\ ArithIdle /\ GridIdle

CallPrintBoard ==
    /\ call.fn = "print_board" /\ ret.kind = "None"
    /\ ret' = [kind |-> "String", val |-> print_board(call.self)]
    /\ nops' = nops + 1
    /\ UNCHANGED <<overflow_checks, call, dir, pos, trail, point, start, net,
                   in_range, last, grid, shadow>>

NextPrint == CallPrintBoard

SpecPrint == InitPrint /\ [][NextPrint]_vars

\* total length of the first k cell texts of a row
RECURSIVE CellsLen(_, _)
CellsLen(row, k) == IF k = 0 THEN 0 ELSE CellsLen(row, k - 1) + Len(row[k])

\* where row i starts in the output: after rows 1..i-1 and their newlines
RECURSIVE RowOffset(_, _)
RowOffset(rows, i) ==
    IF i = 1 THEN 0
    ELSE RowOffset(rows, i - 1) + CellsLen(rows[i - 1], Len(rows[i - 1])) + 1

Count(s, c) == Cardinality({i \in 1..Len(s) : s[i] = c})

\* C8: print_board returns the rows in order, each the concatenation of its
\* cells' texts, with exactly one newline between consecutive rows and none
\* added before the first or after the last (n - 1 newlines for n >= 1 rows);
\* an empty collection gives the empty string.
C8_PrintBoardJoinsRows ==
    ret.kind = "String" =>
        LET rows == call.self
            n == Len(rows)
            out == ret.val
        IN  /\ n = 0 => out = <<>>
            /\ n >= 1 =>
                  /\ Len(out) = RowOffset(rows, n) + CellsLen(rows[n], Len(rows[n]))
                  /\ Count(out, NL) = n - 1
                  /\ \A i \in 2..n : out[RowOffset(rows, i)] = NL
                  /\ \A i \in 1..n : \A k \in 1..Len(rows[i]) :
                        LET from == RowOffset(rows, i) + CellsLen(rows[i], k - 1)
                        IN  SubSeq(out, from + 1, from + Len(rows[i][k])) = rows[i][k]

C8_Witness ==
    /\ ret.kind = "String"
    /\ call.self = << <<<<"a">>, <<"b", "c">>>>, <<>>, <<<<"a">>>> >>
    /\ ret.val = <<"a", "b", "c", NL, NL, "a">>

----------------------------------------------------------------------------
(* Text: a sequence of one-character strings *)

HasPrefixAt(s, i, pat) ==
    /\ i >= 1
    /\ i + Len(pat) - 1 <= Len(s)
    /\ SubSeq(s, i, i + Len(pat) - 1) = pat

\* the first index >= 1 where pat occurs in s, 0 when it does not
Find(s, pat) ==
    LET hits == {i \in 1..Len(s) : HasPrefixAt(s, i, pat)}
    IN  IF hits = {} THEN 0 ELSE CHOOSE i \in hits : \A j \in hits : i <= j

\* str::split(pat): the pieces between the occurrences of pat, left to right;
\* always at least one piece
RECURSIVE Split(_, _)
Split(s, pat) ==
    LET i == Find(s, pat) IN
    IF i = 0 THEN <<s>>
    ELSE <<SubSeq(s, 1, i - 1)>> \o Split(SubSeq(s, i + Len(pat), Len(s)), pat)

\* str::split_once(c): Some((before, after)) around the first c, or None
split_once(s, c) ==
    LET i == Find(s, <<c>>) IN
    IF i = 0 THEN [some |-> FALSE, start |-> <<>>, rest |-> <<>>]
    ELSE [some |-> TRUE, start |-> SubSeq(s, 1, i - 1), rest |-> SubSeq(s, i + 1, Len(s))]

\* T = i8, the narrowest scalar the crate implements PointOption for
I8Min == -128
I8Max == 127
I8 == I8Min .. I8Max

Digits == <<"0", "1", "2", "3", "4", "5", "6", "7", "8", "9">>
IsDigit(c) == \E d \in 1..10 : Digits[d] = c
DigitVal(c) == (CHOOSE d \in 1..10 : Digits[d] = c) - 1

\* the value of the digit string s[1..k]
RECURSIVE Decimal(_, _)
Decimal(s, k) == IF k = 0 THEN 0 ELSE 10 * Decimal(s, k - 1) + DigitVal(s[k])

\* <i8 as FromStr>::from_str: an optional sign, then one or more digits, no
\* blanks; Err when empty, on any other character and on overflow
parse(s) ==
    LET signed == Len(s) >= 1 /\ s[1] \in {"+", "-"}
        digits == IF signed THEN Tail(s) ELSE s
        bad == [ok |-> FALSE, v |-> 0]
    IN  IF Len(digits) = 0 THEN bad
        ELSE IF \E k \in 1..Len(digits) : ~IsDigit(digits[k]) THEN bad
        ELSE LET m == Decimal(digits, Len(digits))
                 v == IF signed /\ s[1] = "-" THEN 0 - m ELSE m
             IN  IF v \in I8 THEN [ok |-> TRUE, v |-> v] ELSE bad

Ok(v) == [kind |-> "Ok", val |-> v]
Err == [kind |-> "Err", val |-> <<>>]
Panic == [kind |-> "Panic", val |-> <<>>]

----------------------------------------------------------------------------
(* impl FromStr for Point<T> *)

Point_from_str(s) ==
    LET splits == Split(s, <<",", " ">>)
        first == split_once(splits[1], "=")
    IN  IF ~first.some THEN Panic                          \* unwrap() of None
        ELSE IF first.start # <<"x">> THEN Panic           \* assert_eq!(start, "x")
        ELSE IF Len(splits) < 2 THEN Panic                 \* next() is None
        ELSE LET second == split_once(splits[2], "=") IN
             IF ~second.some THEN Panic
             ELSE IF second.start # <<"y">> THEN Panic     \* assert_eq!(start, "y")
             ELSE LET x == parse(first.rest)
                      y == parse(second.rest)
                  IN  IF ~x.ok THEN Err
                      ELSE IF ~y.ok THEN Err
                      ELSE Ok(Pt(x.v, y.v))

\* The numerals the callers below use: text and value.  A text parses as the
\* scalar when it is a numeral whose value the scalar holds.
Numerals ==
    { <<<<"3">>, 3>>, <<<<"-", "7">>, -7>>, <<<<"+", "2">>, 2>>,
      <<<<"1", "2", "8">>, 128>>, <<<<"-", "1", "2", "8">>, -128>> }
NotNumerals == { <<>>, <<"a">>, <<"-">>, <<" ", "4">> }
NumberTexts == {n[1] : n \in Numerals} \cup NotNumerals

IsScalarText(t) == \E n \in Numerals : n[1] = t /\ n[2] \in I8
ScalarOf(t) == (CHOOSE n \in Numerals : n[1] = t)[2]

Labels == { <<"x">>, <<"y">>, <<>> }
Equals == { <<"=">>, <<>> }
LabelledFields == {l \o e \o n : l \in Labels, e \in Equals, n \in NumberTexts}
Separators == { <<",", " ">>, <<",">> }
Tails == { <<>>, <<",", " ", "z", "=", "5">>, <<",", " ">> }
PointTexts ==
    LabelledFields
    \cup {f \o sep \o g \o t : f \in LabelledFields, sep \in Separators,
                               g \in LabelledFields, t \in Tails}

InitParse ==
    /\ overflow_checks \in BOOLEAN
    /\ \E t \in PointTexts : call = [fn |-> "Point::from_str", s |-> t]
    /\ ret = None
    /\ nops = 0
    /\ WalkerIdle /\ ArithIdle /\ GridIdle

CallPointFromStr ==
    /\ call.fn = "Point::from_str" /\ ret.kind = "None"
    /\ ret' = Point_from_str(call.s)
    /\ nops' = nops + 1
    /\ UNCHANGED <<overflow_checks, call, dir, pos, trail, point, start, net,
                   in_range, last, grid, shadow>>

NextParse == CallPointFromStr

SpecParse == InitParse /\ [][NextParse]_vars

\* The text form "x=<X>, y=<Y>": the labels are in place when the text starts
\* with "x=" and its first ", " is followed by "y=".
CommaAt(t) == Find(t, <<",", " ">>)
LabelsInPlace(t) ==
    /\ HasPrefixAt(t, 1, <<"x", "=">>)
    /\ CommaAt(t) > 0
    /\ HasPrefixAt(t, CommaAt(t) + 2, <<"y", "=">>)
XText(t) == SubSeq(t, 3, CommaAt(t) - 1)
\* <Y>: all that follows "y="
YText(t) == SubSeq(t, CommaAt(t) + 4, Len(t))
\* the second field alone: what follows "y=" up to the next ", "
YField(t) == Split(YText(t), <<",", " ">>)[1]

\* C5: parsing a Point has three outcomes.  (1) "x=<X>, y=<Y>" with <X> and
\* <Y> parsing as the scalar gives Ok(Point{x: X, y: Y}); (2) labels in place
\* but <X> or <Y> not parsing gives Err(()); (3) the parse panics exactly when
\* the labels are missing or out of order, whatever the numbers are.
C5_ParseHasThreeOutcomes ==
    ret.kind # "None" =>
        LET t == call.s IN
        /\ (LabelsInPlace(t) /\ IsScalarText(XText(t)) /\ IsScalarText(YText(t)))
              => ret = Ok(Pt(ScalarOf(XText(t)), ScalarOf(YText(t))))
        /\ (LabelsInPlace(t) /\ ~(IsScalarText(XText(t)) /\ IsScalarText(YText(t))))
              => ret.kind = "Err"
        /\ ret.kind = "Panic" <=> ~LabelsInPlace(t)

\* What the code does instead: only the second field is read as <Y>, and any
\* text after a second ", " is ignored.
ParseReadsTwoFields ==
    ret.kind # "None" =>
        LET t == call.s IN
        /\ (LabelsInPlace(t) /\ IsScalarText(XText(t)) /\ IsScalarText(YField(t)))
              => ret = Ok(Pt(ScalarOf(XText(t)), ScalarOf(YField(t))))
        /\ (LabelsInPlace(t) /\ ~(IsScalarText(XText(t)) /\ IsScalarText(YField(t))))
              => ret.kind = "Err"
        /\ ret.kind = "Panic" <=> ~LabelsInPlace(t)

----------------------------------------------------------------------------
(* impl FromStr for Point3d<T> *)

MaxFields == 4

Point3d_from_str(s) ==
    LET splits == Split(s, <<",">>)
        x == parse(splits[1])                        \* split always yields one piece
    IN  IF ~x.ok THEN Err
        ELSE IF Len(splits) < 2 THEN Panic           \* next().unwrap() of None
        ELSE LET y == parse(splits[2]) IN
             IF ~y.ok THEN Err
             ELSE IF Len(splits) < 3 THEN Panic      \* next().unwrap() of None
             ELSE LET z == parse(splits[3]) IN
                  IF ~z.ok THEN Err
                  ELSE Ok(Pt3(x.v, y.v, z.v))

\* the fields joined by ","
RECURSIVE JoinComma(_, _)
JoinComma(fields, k) ==
    IF k = 1 THEN fields[1] ELSE JoinComma(fields, k - 1) \o <<",">> \o fields[k]

FieldLists == UNION {[1..k -> NumberTexts] : k \in 1..MaxFields}

\* the caller writes the fields down and parses the text
InitParse3 ==
    /\ overflow_checks \in BOOLEAN
    /\ \E f \in FieldLists :
         call = [fn |-> "Point3d::from_str", s |-> JoinComma(f, Len(f)), fields |-> f]
    /\ ret = None
    /\ nops = 0
    /\ WalkerIdle /\ ArithIdle /\ GridIdle

CallPoint3dFromStr ==
    /\ call.fn = "Point3d::from_str" /\ ret.kind = "None"
    /\ ret' = Point3d_from_str(call.s)
    /\ nops' = nops + 1
    /\ UNCHANGED <<overflow_checks, call, dir, pos, trail, point, start, net,
                   in_range, last, grid, shadow>>

NextParse3 == CallPoint3dFromStr

SpecParse3 == InitParse3 /\ [][NextParse3]_vars

\* C6: parsing "X,Y,Z" never panics; it gives Err(()) when the text has fewer
\* than three fields or one of the three does not parse as the scalar, and
\* Ok(Point3d{x: X, y: Y, z: Z}) when the three are present and parse.
C6_Parse3dFailsRecoverably ==
    ret.kind # "None" =>
        LET f == call.fields
            present == Len(f) >= 3
            good == present /\ \A i \in 1..3 : IsScalarText(f[i])
        IN  /\ ret.kind # "Panic"
            /\ ~good => ret.kind = "Err"
            /\ good => ret = Ok(Pt3(ScalarOf(f[1]), ScalarOf(f[2]), ScalarOf(f[3])))

\* What the code does instead: a missing field panics, unless an earlier
\* field has already failed to parse; the rest is as claimed.
Parse3dPanicsOnMissingField ==
    ret.kind # "None" =>
        LET f == call.fields
            n == IF Len(f) < 3 THEN Len(f) ELSE 3
            read_ok == \A i \in 1..n : IsScalarText(f[i])
        IN  /\ ~read_ok => ret.kind = "Err"
            /\ (read_ok /\ Len(f) < 3) => ret.kind = "Panic"
            /\ (read_ok /\ Len(f) >= 3)
                  => ret = Ok(Pt3(ScalarOf(f[1]), ScalarOf(f[2]), ScalarOf(f[3])))

====
